---------------------------- MODULE Spec2Model ----------------------------
(***************************************************************************)
(* The R / Python conversion notebook (src/r-python-conversion.ipynb) as a *)
(* state machine.  The state is the two interpreter sessions (the R        *)
(* globals sce.416b, scle.416b and adata, the Python global adata), the    *)
(* Loom file the R session writes, and the dataset the last R cell         *)
(* printed.  One action per code cell, taken in the notebook's order.      *)
(*                                                                         *)
(* Strings whose characters matter (attribute names) are sequences of      *)
(* one-character strings, so that strip / lower / replace act on them the  *)
(* way the string methods do.  Identifiers and attribute values are plain  *)
(* strings.  A matrix is either dense (a sequence of rows) or CSR (shape,  *)
(* indptr, indices, data).  An R dataset holds its matrix features x       *)
(* cells, a Python dataset cells x features, as the recorded dimensions    *)
(* show (46604 x 192 in R, 192 x 46604 in Python).                         *)
(*                                                                         *)
(* The library calls are modelled by what the notebook's recorded outputs  *)
(* show of them; each definition names the lines in MODEL_MAP.json.        *)
(***************************************************************************)
EXTENDS Integers, Sequences, FiniteSets, TLC

VARIABLES
    pc,             \* the cell about to run ("cell2" .. "cell11", "done"), or "ops"
    lun,            \* the dataset LunSpikeInData(which="416b") returns
    hub,            \* the annotation table AnnotationHub()[["AH73905"]]
    sce_416b,       \* R global sce.416b
    scle_416b,      \* R global scle.416b
    scle416b_loom,  \* the file 'scle416b.loom'
    adataR,         \* R global adata
    shown,          \* the dataset the last R cell printed
    adata,          \* Python global adata
    pyInput,        \* the dataset first handed to the operations ("ops" runs)
    normCount,      \* how many times the column normalisation has run
    roundTripped    \* whether a CSR matrix has been made dense again

vars ==
    <<pc, lun, hub, sce_416b, scle_416b, scle416b_loom, adataR, shown, adata,
      pyInput, normCount, roundTripped>>

-----------------------------------------------------------------------------
(* Bounds of the model *)

\* longest attribute name handed to the string operations
MaxLen == 3
\* largest matrix entry
MaxVal == 1
\* how many times the normalisation cell is re-run on the same dataset
MaxApply == 2

-----------------------------------------------------------------------------
(* Characters *)

UPPER ==
    <<"A", "B", "C", "D", "E", "F", "G", "H", "I", "J", "K", "L", "M", "N",
      "O", "P", "Q", "R", "S", "T", "U", "V", "W", "X", "Y", "Z">>

LOWER ==
    <<"a", "b", "c", "d", "e", "f", "g", "h", "i", "j", "k", "l", "m", "n",
      "o", "p", "q", "r", "s", "t", "u", "v", "w", "x", "y", "z">>

DIGITS ==
    <<"0", "1", "2", "3", "4", "5", "6", "7", "8", "9">>

\* the characters str.strip() removes from both ends
WHITESPACE == {" ", "\t"}

\* the characters of the model in code-point order (what sorting compares)
ASCII ==
    <<"\t", " ", "-", ".">> \o DIGITS \o UPPER \o <<"_">> \o LOWER

Range(s) == {s[i] : i \in DOMAIN s}

Ord(c) == CHOOSE i \in DOMAIN ASCII : ASCII[i] = c

\* s sorts strictly before t
RECURSIVE NameLess(_, _)
NameLess(s, t) ==
    IF t = <<>> THEN FALSE
    ELSE IF s = <<>> THEN TRUE
    ELSE IF Head(s) = Head(t) THEN NameLess(Tail(s), Tail(t))
    ELSE Ord(Head(s)) < Ord(Head(t))

-----------------------------------------------------------------------------
(* The string methods of cell [9]:                                         *)
(*   columns.str.strip().str.lower().str.replace(' ', '_')                 *)
(*                                  .str.replace('.', '_')                 *)

RECURSIVE lstrip(_)
lstrip(s) ==
    IF s # <<>> /\ Head(s) \in WHITESPACE THEN lstrip(Tail(s)) ELSE s

RECURSIVE rstrip(_)
rstrip(s) ==
    IF s # <<>> /\ s[Len(s)] \in WHITESPACE
        THEN rstrip(SubSeq(s, 1, Len(s) - 1))
        ELSE s

\* a strip that removes at most one character from each end
strip_one(s) ==
    LET l == IF s # <<>> /\ Head(s) \in WHITESPACE THEN Tail(s) ELSE s
    IN  IF l # <<>> /\ l[Len(l)] \in WHITESPACE
            THEN SubSeq(l, 1, Len(l) - 1)
            ELSE l

str_strip(s) == rstrip(lstrip(s))

\* a lower() that was left out
lower_missing(s) == s

str_lower(s) ==
    [i \in 1..Len(s) |->
        IF \E k \in DOMAIN UPPER : UPPER[k] = s[i]
            THEN LOWER[CHOOSE k \in DOMAIN UPPER : UPPER[k] = s[i]]
            ELSE s[i]]

\* a one-character pattern is replaced literally, at every occurrence
str_replace(s, pat, repl) ==
    [i \in 1..Len(s) |-> IF s[i] = pat THEN repl ELSE s[i]]

\* the new column labels, one per old label, in the old order
normalize_columns(columns) ==
    [k \in 1..Len(columns) |->
        str_replace(
            str_replace(str_lower(str_strip(columns[k])), " ", "_"),
            ".", "_")]

\* adata.obs.columns = <labels>: the labels change, nothing else does
set_obs_columns(a, labels) ==
    [a EXCEPT !.obs =
        [k \in 1..Len(a.obs) |-> [name |-> labels[k], values |-> a.obs[k].values]]]

Columns(attrs) == [k \in 1..Len(attrs) |-> attrs[k].name]

normalize_obs_columns(a) ==
    set_obs_columns(a, normalize_columns(Columns(a.obs)))

-----------------------------------------------------------------------------
(* Matrices *)

Transpose(rows) ==
    IF rows = <<>> THEN <<>>
    ELSE [j \in 1..Len(rows[1]) |-> [i \in 1..Len(rows) |-> rows[i][j]]]

RECURSIVE Flatten(_)
Flatten(ss) == IF ss = <<>> THEN <<>> ELSE Head(ss) \o Flatten(Tail(ss))

RECURSIVE SumLen(_, _)
SumLen(ss, n) == IF n = 0 THEN 0 ELSE Len(ss[n]) + SumLen(ss, n - 1)

\* a nonzero test that takes only the positive entries
positive(row) ==
    SelectSeq([j \in 1..Len(row) |-> j], LAMBDA j : row[j] > 0)

\* the columns of a row's nonzero entries, in column order
nonzero(row) ==
    SelectSeq([j \in 1..Len(row) |-> j], LAMBDA j : row[j] # 0)

\* scipy.sparse.csr_matrix(X): the nonzero entries row by row, with 0-based
\* column indices and the row boundaries in indptr; an X that is CSR already
\* is kept as it is
csr_matrix(X) ==
    IF X.fmt = "csr" THEN X
    ELSE
    LET rows == X.rows
        n    == Len(rows)
        m    == IF n = 0 THEN 0 ELSE Len(rows[1])
        nz   == [i \in 1..n |-> nonzero(rows[i])]
    IN  [fmt     |-> "csr",
         shape   |-> <<n, m>>,
         indptr  |-> [i \in 1..(n + 1) |-> SumLen(nz, i - 1)],
         indices |-> Flatten([i \in 1..n |-> [p \in 1..Len(nz[i]) |-> nz[i][p] - 1]]),
         data    |-> Flatten([i \in 1..n |-> [p \in 1..Len(nz[i]) |-> rows[i][nz[i][p]]]])]

\* the dense form of a CSR matrix: every stored entry at its place, 0 elsewhere
toarray(X) ==
    IF X.fmt = "dense" THEN X
    ELSE
    [fmt  |-> "dense",
     rows |-> [i \in 1..X.shape[1] |->
                [j \in 1..X.shape[2] |->
                    LET ps == {p \in (X.indptr[i] + 1)..X.indptr[i + 1] :
                                    X.indices[p] = j - 1}
                    IN  IF ps = {} THEN 0 ELSE X.data[CHOOSE p \in ps : TRUE]]]]

-----------------------------------------------------------------------------
(* Attribute tables: a sequence of columns [name, values], in column order *)

N_Source_Name ==
    <<"S", "o", "u", "r", "c", "e", " ", "N", "a", "m", "e">>
N_cell_line ==
    <<"c", "e", "l", "l", " ", "l", "i", "n", "e">>
N_cell_type ==
    <<"c", "e", "l", "l", " ", "t", "y", "p", "e">>
N_single_cell_well_quality ==
    <<"s", "i", "n", "g", "l", "e", " ", "c", "e", "l", "l", " ", "w", "e", "l",
      "l", " ", "q", "u", "a", "l", "i", "t", "y">>
N_genotype ==
    <<"g", "e", "n", "o", "t", "y", "p", "e">>
N_phenotype ==
    <<"p", "h", "e", "n", "o", "t", "y", "p", "e">>
N_strain ==
    <<"s", "t", "r", "a", "i", "n">>
N_spike_in_addition ==
    <<"s", "p", "i", "k", "e", "-", "i", "n", " ", "a", "d", "d", "i", "t", "i",
      "o", "n">>
N_block ==
    <<"b", "l", "o", "c", "k">>
N_Length ==
    <<"L", "e", "n", "g", "t", "h">>
N_ENSEMBL ==
    <<"E", "N", "S", "E", "M", "B", "L">>
N_SYMBOL ==
    <<"S", "Y", "M", "B", "O", "L">>
N_SEQNAME ==
    <<"S", "E", "Q", "N", "A", "M", "E">>
N_rownames ==
    <<"r", "o", "w", "n", "a", "m", "e", "s">>
N_colnames ==
    <<"c", "o", "l", "n", "a", "m", "e", "s">>
N_gene_ids ==
    <<"g", "e", "n", "e", "_", "i", "d", "s">>

\* R's missing value
NA == "<NA>"

\* a global that no cell has bound yet
Unbound == [unbound |-> TRUE]

HasColumn(attrs, name) == \E k \in DOMAIN attrs : attrs[k].name = name

\* df$name, df.name
column(attrs, name) ==
    attrs[CHOOSE k \in DOMAIN attrs : attrs[k].name = name].values

\* df$name <- values: replaces the column of that name, or adds it last
set_column(attrs, name, values) ==
    IF HasColumn(attrs, name)
        THEN [k \in 1..Len(attrs) |->
                IF attrs[k].name = name
                    THEN [name |-> name, values |-> values]
                    ELSE attrs[k]]
        ELSE Append(attrs, [name |-> name, values |-> values])

\* df.rename(columns={old: new}): the column keeps its place and its values
rename_columns(attrs, old, new) ==
    [k \in 1..Len(attrs) |->
        IF attrs[k].name = old
            THEN [name |-> new, values |-> attrs[k].values]
            ELSE attrs[k]]

\* the name an R data frame gives a column: every character that is not a
\* letter, a digit, a period or an underscore becomes a period (recorded:
\* 'Source Name' -> Source.Name, 'spike-in addition' -> spike.in.addition)
make_names(s) ==
    [i \in 1..Len(s) |->
        IF s[i] \in Range(UPPER) \cup Range(LOWER) \cup Range(DIGITS) \cup {".", "_"}
            THEN s[i]
            ELSE "."]

as_data_frame(attrs) ==
    [k \in 1..Len(attrs) |->
        [name |-> make_names(attrs[k].name), values |-> attrs[k].values]]

RECURSIVE InsertByName(_, _)
InsertByName(sorted, a) ==
    IF sorted = <<>> THEN <<a>>
    ELSE IF NameLess(a.name, Head(sorted).name) THEN <<a>> \o sorted
    ELSE <<Head(sorted)>> \o InsertByName(Tail(sorted), a)

\* the columns in the order of their names
RECURSIVE SortByName(_)
SortByName(attrs) ==
    IF attrs = <<>> THEN <<>>
    ELSE InsertByName(SortByName(SubSeq(attrs, 1, Len(attrs) - 1)), attrs[Len(attrs)])

-----------------------------------------------------------------------------
(* Cell [2]: the R preprocessing and the export *)

\* factor(x): every element keeps its label (values are labels in the model)
factor(values) == values

\* mapIds(hub, keys=ids, keytype="GENEID", column=col)
mapIds(table, keys, col) == [i \in 1..Len(keys) |-> table[keys[i]][col]]

\* scater's uniquifyFeatureNames: the symbol, the id where there is none, and
\* symbol_id for every symbol that occurs more than once
uniquifyFeatureNames(ID, names) ==
    LET nm == [i \in 1..Len(ID) |-> IF names[i] = NA THEN ID[i] ELSE names[i]]
    IN  [i \in 1..Len(ID) |->
            IF \E j \in 1..Len(ID) : j # i /\ nm[j] = nm[i]
                THEN nm[i] \o "_" \o ID[i]
                ELSE nm[i]]

preprocess(sce, table) ==
    LET s1 == [sce EXCEPT !.colData =
                    set_column(@, N_block, factor(column(@, N_block)))]
        s2 == [s1 EXCEPT !.rowData = set_column(@, N_ENSEMBL, s1.rownames)]
        s3 == [s2 EXCEPT !.rowData =
                    set_column(@, N_SYMBOL, mapIds(table, s2.rownames, "SYMBOL"))]
        s4 == [s3 EXCEPT !.rowData =
                    set_column(@, N_SEQNAME, mapIds(table, s3.rownames, "SEQNAME"))]
    IN  [s4 EXCEPT !.rownames =
            uniquifyFeatureNames(column(s4.rowData, N_ENSEMBL),
                                 column(s4.rowData, N_SYMBOL))]

LoomExperiment(sce) == [sce EXCEPT !.class = "SingleCellLoomExperiment"]

\* as(x, "SingleCellExperiment")
as(x, class) == [x EXCEPT !.class = class]

\* an export that writes the attribute names as they are
export_plain_names(scle) ==
    [matrix    |-> scle.X,
     row_attrs |-> Append(scle.rowData,
                          [name |-> N_rownames, values |-> scle.rownames]),
     col_attrs |-> Append(scle.colData,
                          [name |-> N_colnames, values |-> scle.colnames])]

\* export(scle, 'scle416b.loom'): the matrix features x cells, the row and
\* column annotations under their data-frame names, the axis identifiers as
\* the attributes 'rownames' and 'colnames'
export(scle) ==
    [matrix    |-> scle.X,
     row_attrs |-> Append(as_data_frame(scle.rowData),
                          [name |-> N_rownames, values |-> scle.rownames]),
     col_attrs |-> Append(as_data_frame(scle.colData),
                          [name |-> N_colnames, values |-> scle.colnames])]

-----------------------------------------------------------------------------
(* Cells [3] and [8]: the import, and the identifier fix *)

DefaultIndex(n) == [i \in 1..n |-> ToString(i - 1)]

\* sc.read_loom: cells x features, sparse, the attributes listed by name,
\* the identifier slots left at their defaults
read_loom(file) ==
    [X         |-> csr_matrix([fmt |-> "dense", rows |-> Transpose(file.matrix)]),
     obs_names |-> DefaultIndex(Len(file.matrix[1])),
     var_names |-> DefaultIndex(Len(file.matrix)),
     obs       |-> SortByName(file.col_attrs),
     var       |-> SortByName(file.row_attrs)]

\* a fix that renames the column and forgets the index
fix_rename_only(a) ==
    [a EXCEPT !.var = rename_columns(@, N_rownames, N_gene_ids)]

\* adata.var = adata.var.rename(columns={"rownames": "gene_ids"})
\* adata.var.index = adata.var.gene_ids
fix_gene_ids(a) ==
    LET renamed == [a EXCEPT !.var = rename_columns(@, N_rownames, N_gene_ids)]
    IN  [renamed EXCEPT !.var_names = column(renamed.var, N_gene_ids)]

-----------------------------------------------------------------------------
(* The bridge (anndata2ri through rpy2) *)

\* R -> Python: the first assay transposed and dense, the annotations and
\* identifiers as they are
rpy2py(sce) ==
    [X         |-> [fmt |-> "dense", rows |-> Transpose(sce.X)],
     obs_names |-> sce.colnames,
     var_names |-> sce.rownames,
     obs       |-> sce.colData,
     var       |-> sce.rowData]

\* a Python -> R conversion that hands the attribute names over as they are
py2rpy_plain_names(a) ==
    [class    |-> "SingleCellExperiment",
     assay    |-> "X",
     X        |-> Transpose(toarray(a.X).rows),
     rownames |-> a.var_names,
     colnames |-> a.obs_names,
     rowData  |-> a.var,
     colData  |-> a.obs]

\* Python -> R: one assay, labelled "X", transposed; the annotations become
\* R data frames
py2rpy(a) ==
    [class    |-> "SingleCellExperiment",
     assay    |-> "X",
     X        |-> Transpose(toarray(a.X).rows),
     rownames |-> a.var_names,
     colnames |-> a.obs_names,
     rowData  |-> as_data_frame(a.var),
     colData  |-> as_data_frame(a.obs)]

\* what an R cell prints for its last value: the value is handed to Python
\* and back to R's show(), so it crosses the bridge twice
show(value) == py2rpy(rpy2py(value))

\* names(assays(x)) <- name, for the one assay there is
rename_assay(sce, name) == [sce EXCEPT !.assay = name]

\* cell [10] without its first assignment
keep_adata(a, sce) == a

\* adata = rpy2.robjects.r('sce.416b')
rebind_adata(a, sce) == rpy2py(sce)

\* adata.X = csr_matrix(adata.X)
coerce_matrix_sparse(a) == [a EXCEPT !.X = csr_matrix(@)]

\* the dense counterpart of the coercion
coerce_matrix_dense(a) == [a EXCEPT !.X = toarray(@)]

-----------------------------------------------------------------------------
(* The inputs: what LunSpikeInData and AnnotationHub return *)

GeneIds == <<"ENSMUSG00000102693", "ENSMUSG00000064842", "CBFB-MYH11-mcherry">>

CellIds == <<"SLX-9555.N701_S502", "SLX-11312.N712_S517">>

\* counts, and the entries of any numeric matrix
Counts == 0..MaxVal

Vals == -1..MaxVal

\* the values of the k-th cell annotation, one per cell, all different
ObsValues(k) == [j \in 1..Len(CellIds) |-> "o" \o ToString(k) \o "." \o ToString(j)]

LengthValues == [i \in 1..Len(GeneIds) |-> "len" \o ToString(i)]

RECURSIVE Strings(_, _)
Strings(A, n) ==
    IF n <= 0 THEN {<<>>}
    ELSE LET S == Strings(A, n - 1)
         IN  S \cup {<<c>> \o t : c \in A, t \in {u \in S : Len(u) = n - 1}}

\* the cell annotations of the dataset, as the bridge shows them in cell [5]
LunColData ==
    <<[name |-> N_Source_Name,              values |-> ObsValues(1)],
      [name |-> N_cell_line,                values |-> ObsValues(2)],
      [name |-> N_cell_type,                values |-> ObsValues(3)],
      [name |-> N_single_cell_well_quality, values |-> ObsValues(4)],
      [name |-> N_genotype,                 values |-> ObsValues(5)],
      [name |-> N_phenotype,                values |-> ObsValues(6)],
      [name |-> N_strain,                   values |-> ObsValues(7)],
      [name |-> N_spike_in_addition,        values |-> ObsValues(8)],
      [name |-> N_block,                    values |-> ObsValues(9)]>>

\* other cell annotations: two names that begin with a letter, then 'block'
RAlphabet == {"A", "a", " ", ".", "-"}

RNames == {<<c>> \o t : c \in {"A", "a"}, t \in Strings(RAlphabet, MaxLen - 2)}

NamedColData(s, t) ==
    <<[name |-> s,       values |-> ObsValues(1)],
      [name |-> t,       values |-> ObsValues(2)],
      [name |-> N_block, values |-> ObsValues(3)]>>

DefaultX == <<<<1, 0>>, <<0, 0>>, <<1, 1>>>>

DefaultColData == NamedColData(<<"A", " ", "b">>, <<"a", "-", "c">>)

AnnEntries ==
    {[SYMBOL |-> NA,      SEQNAME |-> NA],
     [SYMBOL |-> "Actb",  SEQNAME |-> "5"],
     [SYMBOL |-> "Gapdh", SEQNAME |-> "6"]}

DefaultHub ==
    [g \in Range(GeneIds) |->
        IF g = GeneIds[3]
            THEN [SYMBOL |-> NA, SEQNAME |-> NA]
            ELSE [SYMBOL |-> "Actb", SEQNAME |-> "5"]]

Lun(X, colData) ==
    [class    |-> "SingleCellExperiment",
     assay    |-> "counts",
     X        |-> X,
     rownames |-> GeneIds,
     colnames |-> CellIds,
     rowData  |-> <<[name |-> N_Length, values |-> LengthValues]>>,
     colData  |-> colData]

\* the dataset of the notebook; datasets with other annotation names (those
\* that stay distinct as data-frame names); other matrices; other tables
Inputs ==
    {<<Lun(DefaultX, LunColData), DefaultHub>>}
    \cup {<<Lun(DefaultX, NamedColData(st[1], st[2])), DefaultHub>> :
            st \in {uv \in RNames \X RNames :
                        make_names(uv[1]) # make_names(uv[2])}}
    \cup {<<Lun(X, DefaultColData), DefaultHub>> :
            X \in [1..Len(GeneIds) -> [1..Len(CellIds) -> Counts]]}
    \cup {<<Lun(DefaultX, DefaultColData), h>> : h \in [Range(GeneIds) -> AnnEntries]}

-----------------------------------------------------------------------------
(* The notebook, cell by cell *)

Init ==
    /\ pc = "cell2"
    /\ \E input \in Inputs : lun = input[1] /\ hub = input[2]
    /\ sce_416b = Unbound
    /\ scle_416b = Unbound
    /\ scle416b_loom = Unbound
    /\ adataR = Unbound
    /\ shown = Unbound
    /\ adata = Unbound
    /\ pyInput = Unbound
    /\ normCount = 0
    /\ roundTripped = FALSE

\* [2] %%R: load, preprocess, convert and export to the Loom file
Cell2 ==
    /\ pc = "cell2"
    /\ sce_416b' = preprocess(lun, hub)
    /\ scle_416b' = LoomExperiment(sce_416b')
    /\ scle416b_loom' = export(scle_416b')
    /\ pc' = "cell3"
    /\ UNCHANGED <<lun, hub, adataR, shown, adata, pyInput, normCount,
                   roundTripped>>

\* [3] adata = sc.read_loom("scle416b.loom")
Cell3 ==
    /\ pc = "cell3"
    /\ adata' = read_loom(scle416b_loom)
    /\ pc' = "cell4"
    /\ UNCHANGED <<lun, hub, sce_416b, scle_416b, scle416b_loom, adataR, shown,
                   pyInput, normCount,
                   roundTripped>>

\* [4] %%R -o adata: reload sce.416b, adata <- as(sce.416b, ...), hand adata out
Cell4 ==
    /\ pc = "cell4"
    /\ sce_416b' = lun
    /\ adataR' = as(sce_416b', "SingleCellExperiment")
    /\ adata' = rpy2py(adataR')
    /\ pc' = "cell5"
    /\ UNCHANGED <<lun, hub, scle_416b, scle416b_loom, shown, pyInput, normCount,
                   roundTripped>>

\* [5] adata
Cell5 ==
    /\ pc = "cell5"
    /\ pc' = "cell6"
    /\ UNCHANGED <<lun, hub, sce_416b, scle_416b, scle416b_loom, adataR, shown,
                   adata, pyInput, normCount,
                   roundTripped>>

\* [6] %%R -i adata: hand adata in, print it
Cell6 ==
    /\ pc = "cell6"
    /\ adataR' = py2rpy(adata)
    /\ shown' = show(adataR')
    /\ pc' = "cell7"
    /\ UNCHANGED <<lun, hub, sce_416b, scle_416b, scle416b_loom, adata, pyInput,
                   normCount,
                   roundTripped>>

\* [7] adata = r('as(sce.416b, "SingleCellExperiment")')
Cell7 ==
    /\ pc = "cell7"
    /\ adata' = rpy2py(as(sce_416b, "SingleCellExperiment"))
    /\ pc' = "cell8"
    /\ UNCHANGED <<lun, hub, sce_416b, scle_416b, scle416b_loom, adataR, shown,
                   pyInput, normCount,
                   roundTripped>>

\* [8] read the Loom file again and make the gene ids the index
Cell8 ==
    /\ pc = "cell8"
    /\ adata' = fix_gene_ids(read_loom(scle416b_loom))
    /\ pc' = "cell9"
    /\ UNCHANGED <<lun, hub, sce_416b, scle_416b, scle416b_loom, adataR, shown,
                   pyInput, normCount,
                   roundTripped>>

\* [9] normalise the observation column names
Cell9 ==
    /\ pc = "cell9"
    /\ adata' = normalize_obs_columns(adata)
    /\ normCount' = normCount + 1
    /\ pc' = "cell10"
    /\ UNCHANGED <<lun, hub, sce_416b, scle_416b, scle416b_loom, adataR, shown,
                   pyInput,
                   roundTripped>>

\* [10] adata = rpy2.robjects.r('sce.416b'); adata.X = csr_matrix(adata.X)
Cell10 ==
    /\ pc = "cell10"
    /\ adata' = coerce_matrix_sparse(rebind_adata(adata, sce_416b))
    /\ pc' = "cell11"
    /\ UNCHANGED <<lun, hub, sce_416b, scle_416b, scle416b_loom, adataR, shown,
                   pyInput, normCount,
                   roundTripped>>

\* [11] %%R -i adata: hand adata in, rename its assay, print it
Cell11 ==
    /\ pc = "cell11"
    /\ adataR' = rename_assay(py2rpy(adata), "counts")
    /\ shown' = show(adataR')
    /\ pc' = "done"
    /\ UNCHANGED <<lun, hub, sce_416b, scle_416b, scle416b_loom, adata, pyInput,
                   normCount,
                   roundTripped>>

Next ==
    \/ Cell2
    \/ Cell3
    \/ Cell4
    \/ Cell5
    \/ Cell6
    \/ Cell7
    \/ Cell8
    \/ Cell9
    \/ Cell10
    \/ Cell11

Spec == Init /\ [][Next]_vars

-----------------------------------------------------------------------------
(* The Python-side operations on their own, applied to any dataset *)

OpsAlphabet == {"A", "a", " ", "\t", ".", "_", "-"}

PyData(X, obs) ==
    [X         |-> [fmt |-> "dense", rows |-> X],
     obs_names |-> CellIds,
     var_names |-> GeneIds,
     obs       |-> obs,
     var       |-> <<[name |-> N_Length, values |-> LengthValues]>>]

\* one annotation of any name; two annotations of shorter names; any
\* matrix; the notebook's annotations as cell [3] lists them
OpsInputs ==
    {PyData(Transpose(DefaultX), <<[name |-> s, values |-> ObsValues(1)]>>) :
        s \in Strings(OpsAlphabet, MaxLen)}
    \cup {PyData(Transpose(DefaultX),
                 <<[name |-> s, values |-> ObsValues(1)],
                   [name |-> t, values |-> ObsValues(2)]>>) :
            s \in Strings(OpsAlphabet, MaxLen - 2),
            t \in Strings(OpsAlphabet, MaxLen - 2)}
    \cup {PyData(X, DefaultColData) :
            X \in [1..Len(CellIds) -> [1..Len(GeneIds) -> Vals]]}
    \cup {PyData(Transpose(DefaultX), as_data_frame(LunColData))}

InitOps ==
    /\ pc = "ops"
    /\ adata \in OpsInputs
    /\ pyInput = adata
    /\ normCount = 0
    /\ roundTripped = FALSE
    /\ lun = Unbound
    /\ hub = Unbound
    /\ sce_416b = Unbound
    /\ scle_416b = Unbound
    /\ scle416b_loom = Unbound
    /\ adataR = Unbound
    /\ shown = Unbound

OpNormalize ==
    /\ pc = "ops"
    /\ normCount < MaxApply
    /\ adata' = normalize_obs_columns(adata)
    /\ normCount' = normCount + 1
    /\ UNCHANGED <<pc, lun, hub, sce_416b, scle_416b, scle416b_loom, adataR,
                   shown, pyInput,
                   roundTripped>>

OpSparse ==
    /\ pc = "ops"
    /\ adata' = coerce_matrix_sparse(adata)
    /\ UNCHANGED <<pc, lun, hub, sce_416b, scle_416b, scle416b_loom, adataR,
                   shown, pyInput, normCount,
                   roundTripped>>

OpDense ==
    /\ pc = "ops"
    /\ adata' = coerce_matrix_dense(adata)
    /\ roundTripped' = (roundTripped \/ adata.X.fmt = "csr")
    /\ UNCHANGED <<pc, lun, hub, sce_416b, scle_416b, scle416b_loom, adataR,
                   shown, pyInput, normCount>>

NextOps ==
    \/ OpNormalize
    \/ OpSparse
    \/ OpDense

SpecOps == InitOps /\ [][NextOps]_vars

-----------------------------------------------------------------------------
(* What the recorded outputs of the notebook show, for the notebook's own   *)
(* annotation names (the first of the inputs)                               *)

N_Source_dot_Name ==
    <<"S", "o", "u", "r", "c", "e", ".", "N", "a", "m", "e">>
N_cell_dot_line ==
    <<"c", "e", "l", "l", ".", "l", "i", "n", "e">>
N_cell_dot_type ==
    <<"c", "e", "l", "l", ".", "t", "y", "p", "e">>
N_single_dot_cell_dot_well_dot_quality ==
    <<"s", "i", "n", "g", "l", "e", ".", "c", "e", "l", "l", ".", "w", "e", "l",
      "l", ".", "q", "u", "a", "l", "i", "t", "y">>
N_spike_dot_in_dot_addition ==
    <<"s", "p", "i", "k", "e", ".", "i", "n", ".", "a", "d", "d", "i", "t", "i",
      "o", "n">>
N_source_name ==
    <<"s", "o", "u", "r", "c", "e", "_", "n", "a", "m", "e">>

\* Out[3]: the obs and var lists of the imported AnnData
RecordedImport ==
    (pc = "cell4" /\ lun.colData = LunColData) =>
        /\ Columns(adata.obs) =
            <<N_Source_dot_Name, N_block, N_cell_dot_line, N_cell_dot_type,
              N_colnames, N_genotype, N_phenotype,
              N_single_dot_cell_dot_well_dot_quality,
              N_spike_dot_in_dot_addition, N_strain>>
        /\ Columns(adata.var) =
            <<N_ENSEMBL, N_Length, N_SEQNAME, N_SYMBOL, N_rownames>>

\* Out[5] and Out[7]: the obs and var lists of the bridged AnnData
RecordedBridgeOut ==
    (pc \in {"cell5", "cell8"} /\ lun.colData = LunColData) =>
        /\ Columns(adata.obs) =
            <<N_Source_Name, N_cell_line, N_cell_type,
              N_single_cell_well_quality, N_genotype, N_phenotype, N_strain,
              N_spike_in_addition, N_block>>
        /\ Columns(adata.var) = <<N_Length>>

\* the printed SingleCellExperiment of cells [6] and [11]
RecordedShow ==
    (pc \in {"cell7", "done"} /\ lun.colData = LunColData) =>
        /\ shown.assay = "X"
        /\ shown.rownames = GeneIds
        /\ Columns(shown.rowData) = <<N_Length>>
        /\ shown.colnames = CellIds
        /\ Columns(shown.colData) =
            <<N_Source_dot_Name, N_cell_dot_line, N_cell_dot_type,
              N_single_dot_cell_dot_well_dot_quality, N_genotype, N_phenotype,
              N_strain, N_spike_dot_in_dot_addition, N_block>>

-----------------------------------------------------------------------------
(* Vocabulary of the properties *)

\* the entry of a Python matrix at row i, column j, whatever its storage
Entry(X, i, j) ==
    IF X.fmt = "dense" THEN X.rows[i][j]
    ELSE LET ps == {p \in 1..Len(X.indices) :
                        /\ X.indptr[i] < p
                        /\ p <= X.indptr[i + 1]
                        /\ X.indices[p] + 1 = j}
         IN  IF ps = {} THEN 0 ELSE X.data[CHOOSE p \in ps : TRUE]

Dims(X) ==
    IF X.fmt = "dense" THEN <<Len(X.rows), Len(X.rows[1])>> ELSE X.shape

\* a Python matrix (cells x features) holds the values of an R matrix
\* (features x cells)
SameValues(Xpy, Xr) ==
    /\ Dims(Xpy) = <<Len(Xr[1]), Len(Xr)>>
    /\ \A i \in 1..Len(Xr[1]), j \in 1..Len(Xr) : Entry(Xpy, i, j) = Xr[j][i]

\* an attribute table as a mapping: the set of its (name, values) pairs
AsMapping(attrs) == {<<attrs[k].name, attrs[k].values>> : k \in DOMAIN attrs}

\* a name with each space and each hyphen written as a period
DataFrameName(s) ==
    [i \in 1..Len(s) |-> IF s[i] \in {" ", "-"} THEN "." ELSE s[i]]

WithDataFrameNames(attrs) ==
    {<<DataFrameName(attrs[k].name), attrs[k].values>> : k \in DOMAIN attrs}

Distinct(seq) == \A i, j \in DOMAIN seq : i # j => seq[i] # seq[j]

\* the invariants of the data model, for a Python dataset
DataModelInvariant(a) ==
    /\ Dims(a.X) = <<Len(a.obs_names), Len(a.var_names)>>
    /\ \A k \in DOMAIN a.obs : Len(a.obs[k].values) = Len(a.obs_names)
    /\ \A k \in DOMAIN a.var : Len(a.var[k].values) = Len(a.var_names)
    /\ Distinct(a.obs_names)
    /\ Distinct(a.var_names)
    /\ Distinct(Columns(a.obs))
    /\ Distinct(Columns(a.var))

\* the same, for an R dataset
DataModelInvariantR(sce) ==
    /\ Len(sce.X) = Len(sce.rownames)
    /\ \A i \in DOMAIN sce.X : Len(sce.X[i]) = Len(sce.colnames)
    /\ \A k \in DOMAIN sce.colData : Len(sce.colData[k].values) = Len(sce.colnames)
    /\ \A k \in DOMAIN sce.rowData : Len(sce.rowData[k].values) = Len(sce.rownames)
    /\ Distinct(sce.rownames)
    /\ Distinct(sce.colnames)
    /\ Distinct(Columns(sce.colData))
    /\ Distinct(Columns(sce.rowData))

\* the normalised form of one character
NormalChar(c) ==
    IF c \in {" ", "."} THEN "_"
    ELSE IF \E k \in DOMAIN UPPER : UPPER[k] = c
        THEN LOWER[CHOOSE k \in DOMAIN UPPER : UPPER[k] = c]
        ELSE c

\* r is s without its leading and trailing whitespace, in lower case, with
\* each space and each period written as an underscore
IsNormalized(s, r) ==
    \E a \in 0..Len(s), b \in 0..Len(s) :
        /\ a <= b
        /\ \A i \in 1..a : s[i] \in WHITESPACE
        /\ \A i \in (b + 1)..Len(s) : s[i] \in WHITESPACE
        /\ a < b => (s[a + 1] \notin WHITESPACE /\ s[b] \notin WHITESPACE)
        /\ Len(r) = b - a
        /\ \A i \in 1..(b - a) : r[i] = NormalChar(s[a + i])

-----------------------------------------------------------------------------
(* The claims *)

C2_NormalizeIdempotent ==
    [][(normCount >= 1 /\ normCount' = normCount + 1) => adata' = adata]_vars

\* C2 witness: the normalisation has run twice on a name with leading
\* whitespace, an upper-case letter and a period.
C2_Witness ==
    /\ pc = "ops"
    /\ normCount = 2
    /\ \E k \in DOMAIN pyInput.obs :
        LET s == pyInput.obs[k].name
        IN  /\ s # <<>>
            /\ Head(s) \in WHITESPACE
            /\ "A" \in Range(s)
            /\ "." \in Range(s)

\* C3: the normalisation gives every observation attribute the name
\* obtained by trimming, lower-casing and writing spaces and periods as
\* underscores, and changes nothing else: the number and order of the
\* attributes, their values, the matrix, the identifiers and the variable
\* attributes stay as they were.
C3_NormalizeRenamesOnly ==
    [][normCount' = normCount + 1 =>
        /\ Len(adata'.obs) = Len(adata.obs)
        /\ \A k \in DOMAIN adata.obs :
            /\ IsNormalized(adata.obs[k].name, adata'.obs[k].name)
            /\ adata'.obs[k].values = adata.obs[k].values
        /\ adata'.X = adata.X
        /\ adata'.obs_names = adata.obs_names
        /\ adata'.var_names = adata.var_names
        /\ adata'.var = adata.var]_vars

\* C3 witness: 'Source.Name' has become 'source_name', first of as many
\* attributes as before.
C3_Witness ==
    /\ pc = "ops"
    /\ normCount = 1
    /\ pyInput.obs[1].name = N_Source_dot_Name
    /\ adata.obs[1].name = N_source_name
    /\ Len(adata.obs) = Len(LunColData)

\* C4 (as stated): after the identifier fix, the normalisation, the sparse
\* coercion, the bridge conversions and the rename, the dataset satisfies the
\* invariants of the data model, and no normalised name holds a period or a
\* space.
C4_InvariantsPreserved ==
    /\ pc \in {"cell5", "cell8", "cell9", "cell10", "cell11", "done"} =>
        DataModelInvariant(adata)
    /\ pc \in {"cell7", "done"} => DataModelInvariantR(adataR)
    /\ pc = "cell10" =>
        \A k \in DOMAIN adata.obs :
            Range(adata.obs[k].name) \cap {" ", "."} = {}

C7_SparseDenseRoundTrip ==
    pc = "ops" =>
        /\ Dims(adata.X) = Dims(pyInput.X)
        /\ \A i \in 1..Len(CellIds), j \in 1..Len(GeneIds) :
            Entry(adata.X, i, j) = pyInput.X.rows[i][j]
        /\ adata.X.fmt = "dense" => adata.X = pyInput.X
        /\ adata.obs_names = pyInput.obs_names
        /\ adata.var_names = pyInput.var_names
        /\ adata.var = pyInput.var
        /\ Len(adata.obs) = Len(pyInput.obs)
        /\ \A k \in DOMAIN adata.obs : adata.obs[k].values = pyInput.obs[k].values
        /\ normCount = 0 => adata.obs = pyInput.obs

\* C7 witness: a matrix with a zero, a negative and a positive entry has
\* been made sparse and dense again.
C7_Witness ==
    /\ pc = "ops"
    /\ roundTripped
    /\ adata.X.fmt = "dense"
    /\ \E i \in 1..Len(CellIds), j \in 1..Len(GeneIds) : pyInput.X.rows[i][j] = 0
    /\ \E i \in 1..Len(CellIds), j \in 1..Len(GeneIds) : pyInput.X.rows[i][j] < 0
    /\ \E i \in 1..Len(CellIds), j \in 1..Len(GeneIds) : pyInput.X.rows[i][j] > 0

\* C8 (as stated): after the identifier fix the variable identifiers are the
\* values the 'rownames' attribute held on import, no attribute is named
\* 'rownames', and no variable attribute carries the identifier values any
\* more.
C8_GeneIdsMoved ==
    pc = "cell9" =>
        /\ adata.var_names = column(scle416b_loom.row_attrs, N_rownames)
        /\ ~HasColumn(adata.var, N_rownames)
        /\ \A k \in DOMAIN adata.var : adata.var[k].values # adata.var_names

\* C8 (amended): after the identifier fix the variable identifiers are the
\* values the 'rownames' attribute held on import, no attribute is named
\* 'rownames', the values are still carried by the attribute now named
\* 'gene_ids', and the other variable attributes, the observation side and
\* the matrix are as imported.
C8_GeneIdsBecomeIndex ==
    pc = "cell9" =>
        /\ adata.var_names = column(scle416b_loom.row_attrs, N_rownames)
        /\ ~HasColumn(adata.var, N_rownames)
        /\ <<N_gene_ids, adata.var_names>> \in AsMapping(adata.var)
        /\ Len(adata.var) = Len(scle416b_loom.row_attrs)
        /\ AsMapping(adata.var) \ {<<N_gene_ids, adata.var_names>>} =
            AsMapping(scle416b_loom.row_attrs)
                \ {<<N_rownames, column(scle416b_loom.row_attrs, N_rownames)>>}
        /\ AsMapping(adata.obs) = AsMapping(scle416b_loom.col_attrs)
        /\ Len(adata.obs) = Len(scle416b_loom.col_attrs)
        /\ adata.obs_names = [i \in 1..Len(CellIds) |-> ToString(i - 1)]
        /\ SameValues(adata.X, scle416b_loom.matrix)

\* C8 witness: the fix has run on an import whose gene identifiers are
\* symbols made unique, different from the ids the dataset was loaded with.
C8_Witness ==
    /\ pc = "cell9"
    /\ adata.var_names # GeneIds
    /\ adata.var_names = scle_416b.rownames

\* C10 (state part): from the sparse-coercion cell on, the Python dataset is
\* the bridged sce.416b made sparse: the annotation names of sce.416b as they
\* are, its identifiers, no 'gene_ids' attribute; the dataset handed to the
\* last R cell carries those names as data-frame names.
C10_AfterRebind ==
    /\ pc \in {"cell11", "done"} =>
        /\ Columns(adata.obs) = Columns(sce_416b.colData)
        /\ adata.var_names = sce_416b.rownames
        /\ adata.obs_names = sce_416b.colnames
        /\ ~HasColumn(adata.var, N_gene_ids)
        /\ adata.X.fmt = "csr"
        /\ SameValues(adata.X, sce_416b.X)
    /\ pc = "done" =>
        /\ Columns(adataR.colData) =
            [k \in 1..Len(sce_416b.colData) |->
                DataFrameName(sce_416b.colData[k].name)]
        /\ adataR.rownames = sce_416b.rownames

\* C10: run in order, the cells leave the last R cell a dataset that carries
\* only the sparse coercion (not the identifier fix, not the normalised
\* names), and that cell's rename leaves the Python dataset as it was.
C10_RebindDiscardsFixes ==
    /\ []C10_AfterRebind
    /\ [][pc = "cell11" => adata' = adata]_vars

\* C10 witness: the run is over; the normalised names differ from the
\* bridged ones and the Loom file's gene ids from those of sce.416b.
C10_Witness ==
    /\ pc = "done"
    /\ normalize_columns(Columns(adata.obs)) # Columns(adata.obs)
    /\ column(scle416b_loom.row_attrs, N_rownames) # adata.var_names

=============================================================================
